---- MODULE Spec2Model ----
(***************************************************************************)
(* State-machine model of AegisMonitorV3 (src/aegis_monitor.py): the       *)
(* per-tick telemetry pipeline get_all_system_data with its rate           *)
(* calculation, forecast, health score, alert logs and history buffers.    *)
(*                                                                         *)
(* Representation:                                                         *)
(*   - Python None is the empty tuple; a present value x is <<x>>.         *)
(*   - A formatted string is the tuple of its tokens, so two strings are   *)
(*     equal exactly when their tuples are equal.                          *)
(*   - Percentages, counts and byte counters are integers.  Time is in     *)
(*     tenths of a second.  A speed "diff / 0.5" is the integer 2 * diff.  *)
(*   - The forecast slope divides by len(recent) = 5; slopes and predicted *)
(*     values are held in fifths (FP) so that the division is exact.       *)
(***************************************************************************)
EXTENDS Integers, Sequences, FiniteSets, TLC

VARIABLES
    notifications,    \* self.notifications
    alert_history,    \* self.alert_history
    data_history,     \* self.data_history
    max_history,      \* self.max_history
    thresholds,       \* self.thresholds
    data,             \* self.data
    prev_net,         \* self.prev_net
    prev_disk_io,     \* self.prev_disk_io
    prev_proc_count,  \* self.prev_proc_count
    now,              \* wall clock, tenths of a second
    ticks,            \* number of completed get_all_system_data calls
    snapshot,         \* raw readings psutil returned to the last tick
    elapsed,          \* real time between the last two ticks, tenths of a second
    alerts,           \* the local list `alerts` built by the last _check_alerts
    pushed,           \* every value ever appended to each history buffer
    error,            \* the exception that ended the run loop, if any
    graphs            \* the trend graphs of the last make_health_panel

vars == <<notifications, alert_history, data_history, max_history, thresholds,
          data, prev_net, prev_disk_io, prev_proc_count, now, ticks, snapshot,
          elapsed, alerts, pushed, error, graphs>>

-----------------------------------------------------------------------------
(* Generic helpers *)

None == <<>>

Some(x) == <<x>>

Range(s) == {s[i] : i \in 1..Len(s)}

Min(a, b) == IF a < b THEN a ELSE b

Max(a, b) == IF a > b THEN a ELSE b

\* s[-n:]
LastN(s, n) == IF Len(s) <= n THEN s ELSE SubSeq(s, Len(s) - n + 1, Len(s))

\* slip: pop() drops the newest element instead of the oldest
PopNewest(s) == SubSeq(s, 1, Len(s) - 1)

\* list.pop(0)
Pop0(s) == Tail(s)

-----------------------------------------------------------------------------
(* Program constants *)

\* fixed-point denominator of forecast values: len(recent_cpu)
FP == 5

\* the literal 0.5 the speeds are divided by, in tenths of a second
SpeedWindow == 5

\* len(self.notifications) > 10
NotificationCap == 10

\* len(self.alert_history) > 50
AlertHistoryCap == 50

\* the blocking part of one loop iteration, in tenths of a second:
\* cpu_percent(interval=0.3) + cpu_percent(interval=0.1) + time.sleep(0.5)
MinElapsed == 9

InitThresholds ==
    [cpu_warn |-> 70, cpu_crit |-> 90,
     ram_warn |-> 75, ram_crit |-> 90,
     disk_warn |-> 80, disk_crit |-> 95,
     temp_warn |-> 70, temp_crit |-> 85,
     swap_warn |-> 50, swap_crit |-> 80,
     conn_warn |-> 1000, conn_crit |-> 5000,
     proc_warn |-> 300, proc_crit |-> 500]

-----------------------------------------------------------------------------
(* Strings *)

NA == <<"N/A">>

\* f"{entry.current:.1f}°C"
FormatTemp(t) == <<t, "degC">>

\* float(self.data['cpu_temp'].replace('°C', '')); None when float() raises
ParseTemp(s) == IF Len(s) = 2 /\ s[2] = "degC" THEN Some(s[1]) ELSE None

\* f"<icon> CRITICAL: CPU at {value}%" and its siblings
Msg(sev, what, value) == <<sev, what, value>>

\* datetime.now().strftime('%H:%M:%S')
ClockText(t) == (t \div 10) % 86400

\* f"{datetime.now().strftime('%H:%M:%S')} - {alert}"
Stamped(t, alert) == <<ClockText(t), "-">> \o alert

-----------------------------------------------------------------------------
(* _predict_resources *)

\* (recent[-1] - recent[0]) / len(recent), in units of 1/len(recent)
Trend(recent) == recent[Len(recent)] - recent[1]

\* "increasing" if trend > 2 else "decreasing" if trend < -2 else "stable"
\* slip: a slope of exactly 2 or -2 already counts as a trend
TrendLabelInclusive(trend, n) ==
    IF trend >= 2 * n THEN "increasing"
    ELSE IF trend <= -2 * n THEN "decreasing"
    ELSE "stable"

TrendLabel(trend, n) ==
    IF trend > 2 * n THEN "increasing"
    ELSE IF trend < -2 * n THEN "decreasing"
    ELSE "stable"

\* slip: the extrapolation is not clamped
PredictedUnclamped(current, trend) == current * FP + trend * 2

\* min(100, max(0, current + trend * 2)), in fifths
Predicted(current, trend) == Min(100 * FP, Max(0, current * FP + trend * 2))

\* slip: the window must hold more than five samples
ForecastFromSix(history, current) ==
    IF Len(history) > 5
    THEN LET recent == LastN(history, 5)
             trend == Trend(recent)
         IN  <<TrendLabel(trend, Len(recent)), Predicted(current, trend)>>
    ELSE <<"unknown", current * FP>>

\* slip: four samples already count as enough
ForecastFromFour(history, current) ==
    IF Len(history) >= 4
    THEN LET recent == LastN(history, 5)
             trend == Trend(recent)
         IN  <<TrendLabel(trend, Len(recent)), Predicted(current, trend)>>
    ELSE <<"unknown", current * FP>>

\* one branch pair of _predict_resources: <<trend label, predicted value in fifths>>
Forecast(history, current) ==
    IF Len(history) >= 5
    THEN LET recent == LastN(history, 5)
             trend == Trend(recent)
         IN  <<TrendLabel(trend, Len(recent)), Predicted(current, trend)>>
    ELSE <<"unknown", current * FP>>

PredictResources(hist, d) ==
    LET cpu == Forecast(hist.cpu, d.cpu_percent)
        ram == Forecast(hist.ram, d.ram_percent)
    IN  [cpu_trend |-> cpu[1], cpu_predicted |-> cpu[2],
         ram_trend |-> ram[1], ram_predicted |-> ram[2]]

-----------------------------------------------------------------------------
(* _calculate_health_score *)

\* slip: the upper CPU tier starts at 90 instead of above 90
CpuPenaltyInclusive(d) ==
    IF d.cpu_percent >= 90 THEN 25 ELSE IF d.cpu_percent > 70 THEN 10 ELSE 0

CpuPenalty(d) ==
    IF d.cpu_percent > 90 THEN 25 ELSE IF d.cpu_percent > 70 THEN 10 ELSE 0

RamPenalty(d) ==
    IF d.ram_percent > 90 THEN 25 ELSE IF d.ram_percent > 70 THEN 10 ELSE 0

DiskPenalty(d) ==
    IF d.disk_percent > 95 THEN 20 ELSE IF d.disk_percent > 80 THEN 10 ELSE 0

\* slip: a missing sensor is scored like a warm CPU
TempPenaltyMissingSensor(d) ==
    IF d.cpu_temp # NA
    THEN LET temp_val == ParseTemp(d.cpu_temp)
         IN  IF temp_val = None THEN 0
             ELSE IF temp_val[1] > 85 THEN 15
             ELSE IF temp_val[1] > 70 THEN 5
             ELSE 0
    ELSE 5

TempPenalty(d) ==
    IF d.cpu_temp # NA
    THEN LET temp_val == ParseTemp(d.cpu_temp)
         IN  IF temp_val = None THEN 0
             ELSE IF temp_val[1] > 85 THEN 15
             ELSE IF temp_val[1] > 70 THEN 5
             ELSE 0
    ELSE 0

ProcPenalty(d) == IF d.process_count > 500 THEN 5 ELSE 0

ZombiePenalty(d) == IF d.zombie_count > 0 THEN 10 ELSE 0

ConnPenalty(d) == IF d.net_connections > 1000 THEN 5 ELSE 0

\* slip: the score is capped at 100 and not floored at 0
CalculateHealthScoreNoFloor(d) ==
    LET score == 100 - CpuPenalty(d) - RamPenalty(d) - DiskPenalty(d)
                     - TempPenalty(d) - ProcPenalty(d) - ZombiePenalty(d)
                     - ConnPenalty(d)
    IN  Min(100, score)

\* slip: hysteresis, five more points are withheld while the alert log holds
\* entries of earlier ticks
CalculateHealthScoreSticky(d) ==
    LET score == 100 - CpuPenalty(d) - RamPenalty(d) - DiskPenalty(d)
                     - TempPenalty(d) - ProcPenalty(d) - ZombiePenalty(d)
                     - ConnPenalty(d)
                     - (IF alert_history # <<>> THEN 5 ELSE 0)
    IN  Max(0, Min(100, score))

CalculateHealthScore(d) ==
    LET score == 100 - CpuPenalty(d) - RamPenalty(d) - DiskPenalty(d)
                     - TempPenalty(d) - ProcPenalty(d) - ZombiePenalty(d)
                     - ConnPenalty(d)
    IN  Max(0, Min(100, score))

-----------------------------------------------------------------------------
(* _check_alerts *)

\* if value > crit: CRITICAL elif value > warn: WARNING
\* slip: two independent tests instead of if / elif
LevelBoth(value, warn, crit, what) ==
    (IF value > crit THEN <<Msg("CRITICAL", what, value)>> ELSE <<>>)
        \o (IF value > warn THEN <<Msg("WARNING", what, value)>> ELSE <<>>)

Level(value, warn, crit, what) ==
    IF value > crit THEN <<Msg("CRITICAL", what, value)>>
    ELSE IF value > warn THEN <<Msg("WARNING", what, value)>>
    ELSE <<>>

CpuAlert(d, th) == Level(d.cpu_percent, th.cpu_warn, th.cpu_crit, "CPU")

RamAlert(d, th) == Level(d.ram_percent, th.ram_warn, th.ram_crit, "RAM")

DiskAlert(d, th) == Level(d.disk_percent, th.disk_warn, th.disk_crit, "Disk")

TempAlert(d, th) ==
    IF d.cpu_temp # NA
    THEN LET temp_val == ParseTemp(d.cpu_temp)
         IN  IF temp_val = None THEN <<>>
             ELSE Level(temp_val[1], th.temp_warn, th.temp_crit, "CPU Temp")
    ELSE <<>>

\* slip: the message does not embed the count
ZombieAlertNoCount(d) ==
    IF d.zombie_count > 0
    THEN <<Msg("WARNING", "Zombie Processes", 0)>>
    ELSE <<>>

ZombieAlert(d) ==
    IF d.zombie_count > 0
    THEN <<Msg("WARNING", "Zombie Processes", d.zombie_count)>>
    ELSE <<>>

ConnAlert(d, th) ==
    Level(d.net_connections, th.conn_warn, th.conn_crit, "Network Connections")

\* the list `alerts` after the threshold rules
BuildAlerts(d, th) ==
    CpuAlert(d, th) \o RamAlert(d, th) \o DiskAlert(d, th) \o TempAlert(d, th)
        \o ZombieAlert(d) \o ConnAlert(d, th)

\* alert not in self.alert_history
NotInHistory(alert, hist) == alert \notin Range(hist)

\* for alert in alerts: if alert not in history: append to both logs
RECURSIVE AddAlerts(_, _, _, _)
AddAlerts(as, hist, notes, t) ==
    IF as = <<>> THEN [hist |-> hist, notes |-> notes]
    ELSE IF NotInHistory(Head(as), hist)
         THEN AddAlerts(Tail(as), Append(hist, Stamped(t, Head(as))),
                        Append(notes, Head(as)), t)
         ELSE AddAlerts(Tail(as), hist, notes, t)

\* slip: log.pop() removes the newest entry
TrimNewest(log, cap) == IF Len(log) > cap THEN SubSeq(log, 1, Len(log) - 1) ELSE log

\* if len(log) > cap: log.pop(0)
Trim(log, cap) == IF Len(log) > cap THEN Pop0(log) ELSE log

-----------------------------------------------------------------------------
(* _update_history *)

Push(buffer, value, cap) == Trim(Append(buffer, value), cap)

\* slip: the eviction loop stops after its first buffer
UpdateHistoryFirstOnly(hist, d, cap) ==
    [cpu     |-> Push(hist.cpu, d.cpu_percent, cap),
     ram     |-> Append(hist.ram, d.ram_percent),
     disk    |-> Append(hist.disk, d.disk_percent),
     network |-> Append(hist.network, d.net_up_speed + d.net_down_speed)]

UpdateHistory(hist, d, cap) ==
    [cpu     |-> Push(hist.cpu, d.cpu_percent, cap),
     ram     |-> Push(hist.ram, d.ram_percent, cap),
     disk    |-> Push(hist.disk, d.disk_percent, cap),
     network |-> Push(hist.network, d.net_up_speed + d.net_down_speed, cap)]

-----------------------------------------------------------------------------
(* Rates in get_all_system_data *)

\* (current - previous) / 0.5, in bytes per second
Speed(current, previous) == ((current - previous) * 10) \div SpeedWindow

\* truth value of a psutil result or stored sample
Truthy(x) == x # None

\* truth value of self.prev_proc_count (None and 0 are false)
TruthyInt(x) == x # None /\ x[1] # 0

\* slip: a tick without disk counters repeats the last reported rate
DiskReadSpeedHeld(disk_io, prev) ==
    IF Truthy(disk_io)
    THEN IF Truthy(prev) THEN Speed(disk_io[1].read_bytes, prev[1].read_bytes) ELSE 0
    ELSE IF ticks > 0 THEN data.disk_read_speed ELSE 0

DiskReadSpeed(disk_io, prev) ==
    IF Truthy(disk_io)
    THEN IF Truthy(prev) THEN Speed(disk_io[1].read_bytes, prev[1].read_bytes) ELSE 0
    ELSE 0

DiskWriteSpeed(disk_io, prev) ==
    IF Truthy(disk_io)
    THEN IF Truthy(prev) THEN Speed(disk_io[1].write_bytes, prev[1].write_bytes) ELSE 0
    ELSE 0

\* slip: the assignment is outside the if, a missing reading clears the sample
NextPrevDiskIoForgetful(disk_io, prev) == disk_io

NextPrevDiskIo(disk_io, prev) == IF Truthy(disk_io) THEN disk_io ELSE prev

\* slip: a missing previous sample is read as a counter at 0
NetUpSpeedFromZero(net, prev) ==
    IF Truthy(prev) THEN Speed(net.bytes_sent, prev[1].bytes_sent)
    ELSE Speed(net.bytes_sent, 0)

NetUpSpeed(net, prev) ==
    IF Truthy(prev) THEN Speed(net.bytes_sent, prev[1].bytes_sent) ELSE 0

NetDownSpeed(net, prev) ==
    IF Truthy(prev) THEN Speed(net.bytes_recv, prev[1].bytes_recv) ELSE 0

\* psutil.net_io_counters() returned its named tuple, not None
NetPresent(net) == DOMAIN net # {}

ProcessDelta(count, prev) == IF TruthyInt(prev) THEN count - prev[1] ELSE 0

-----------------------------------------------------------------------------
(* State after AegisMonitorV3.__init__ *)

DataKeys ==
    {"cpu_percent", "cpu_temp", "ram_percent", "swap_percent", "disk_percent",
     "disk_read_bytes", "disk_write_bytes", "disk_read_speed", "disk_write_speed",
     "net_sent", "net_recv", "net_up_speed", "net_down_speed", "net_connections",
     "process_count", "process_delta", "zombie_count", "resource_forecast",
     "health_score"}

\* self.data = {}: no key holds a value yet
InitData == [k \in DataKeys |-> None]

InitHistory == [cpu |-> <<>>, ram |-> <<>>, disk |-> <<>>, network |-> <<>>]

\* self.max_history = 30
InitMaxHistory == 30

\* no panel has been rendered yet
InitGraphs == [cpu |-> <<>>, ram |-> <<>>, network |-> <<>>]

Init ==
    /\ notifications = <<>>
    /\ alert_history = <<>>
    /\ data_history = InitHistory
    /\ max_history = InitMaxHistory
    /\ thresholds = InitThresholds
    /\ data = InitData
    /\ prev_net = None
    /\ prev_disk_io = None
    /\ prev_proc_count = None
    /\ now = 0
    /\ ticks = 0
    /\ snapshot = None
    /\ elapsed = 0
    /\ alerts = <<>>
    /\ pushed = InitHistory
    /\ error = None
    /\ graphs = InitGraphs

-----------------------------------------------------------------------------
(* get_all_system_data: one tick of the run loop *)

\* self.data after the collection part (features 1-37) of the tick
CollectData(d, snap, pnet, pdisk, pproc) ==
    [d EXCEPT
        !.cpu_percent      = snap.cpu_percent,
        !.cpu_temp         = snap.cpu_temp,
        !.ram_percent      = snap.ram_percent,
        !.swap_percent     = snap.swap_percent,
        !.disk_percent     = snap.disk_percent,
        !.disk_read_bytes  = IF Truthy(snap.disk_io) THEN snap.disk_io[1].read_bytes ELSE @,
        !.disk_write_bytes = IF Truthy(snap.disk_io) THEN snap.disk_io[1].write_bytes ELSE @,
        !.disk_read_speed  = DiskReadSpeed(snap.disk_io, pdisk),
        !.disk_write_speed = DiskWriteSpeed(snap.disk_io, pdisk),
        !.net_sent         = snap.net.bytes_sent,
        !.net_recv         = snap.net.bytes_recv,
        !.net_up_speed     = NetUpSpeed(snap.net, pnet),
        !.net_down_speed   = NetDownSpeed(snap.net, pnet),
        !.net_connections  = snap.net_connections,
        !.process_count    = snap.process_count,
        !.process_delta    = ProcessDelta(snap.process_count, pproc),
        !.zombie_count     = snap.zombie_count]

\* self.data when _predict_resources has run (line 400)
WithForecast(d, hist) == [d EXCEPT !.resource_forecast = PredictResources(hist, d)]

\* self.data when _calculate_health_score has run (line 403)
WithHealth(d) == [d EXCEPT !.health_score = CalculateHealthScore(d)]

\* slip: _update_history is called ahead of _predict_resources
ForecastWindowAfterPush(hist, d, cap) == UpdateHistory(hist, d, cap)

\* the history the forecast of a tick reads: _predict_resources (line 400)
\* runs before _update_history (line 405)
ForecastWindow(hist, d, cap) == hist

\* the values _update_history appends, logged without eviction
Logged(log, d) ==
    [cpu     |-> Append(log.cpu, d.cpu_percent),
     ram     |-> Append(log.ram, d.ram_percent),
     disk    |-> Append(log.disk, d.disk_percent),
     network |-> Append(log.network, d.net_up_speed + d.net_down_speed)]

\* slip: the limits adapt, every alerting tick raises the CPU warning level and
\* a full history buffer is given more room
TickRetuning(snap, e) ==
    LET collected == CollectData(data, snap, prev_net, prev_disk_io, prev_proc_count)
        d         == WithHealth(WithForecast(collected,
                         ForecastWindow(data_history, collected, max_history)))
        new       == BuildAlerts(d, thresholds)
        logs      == AddAlerts(new, alert_history, notifications, now + e)
    IN  /\ error = None
        /\ NetPresent(snap.net)
        /\ now' = now + e
        /\ elapsed' = e
        /\ snapshot' = Some(snap)
        /\ ticks' = ticks + 1
        /\ data' = d
        /\ prev_disk_io' = NextPrevDiskIo(snap.disk_io, prev_disk_io)
        /\ prev_net' = Some(snap.net)
        /\ prev_proc_count' = Some(snap.process_count)
        /\ alerts' = new
        /\ notifications' = Trim(logs.notes, NotificationCap)
        /\ alert_history' = Trim(logs.hist, AlertHistoryCap)
        /\ data_history' = UpdateHistory(data_history, d, max_history)
        /\ pushed' = Logged(pushed, d)
        /\ thresholds' = IF new # <<>> THEN [thresholds EXCEPT !.cpu_warn = @ + 5]
                         ELSE thresholds
        /\ max_history' = IF Len(data_history.cpu) >= max_history
                          THEN max_history + 1 ELSE max_history
        /\ UNCHANGED <<error, graphs>>

Tick(snap, e) ==
    LET collected == CollectData(data, snap, prev_net, prev_disk_io, prev_proc_count)
        d         == WithHealth(WithForecast(collected,
                         ForecastWindow(data_history, collected, max_history)))
        new       == BuildAlerts(d, thresholds)
        logs      == AddAlerts(new, alert_history, notifications, now + e)
    IN  /\ error = None
        /\ NetPresent(snap.net)
        /\ now' = now + e
        /\ elapsed' = e
        /\ snapshot' = Some(snap)
        /\ ticks' = ticks + 1
        /\ data' = d
        /\ prev_disk_io' = NextPrevDiskIo(snap.disk_io, prev_disk_io)
        /\ prev_net' = Some(snap.net)
        /\ prev_proc_count' = Some(snap.process_count)
        /\ alerts' = new
        /\ notifications' = Trim(logs.notes, NotificationCap)
        /\ alert_history' = Trim(logs.hist, AlertHistoryCap)
        /\ data_history' = UpdateHistory(data_history, d, max_history)
        /\ pushed' = Logged(pushed, d)
        /\ UNCHANGED <<max_history, thresholds, error, graphs>>

\* self.data when line 211 is reached (features 1-22 are collected)
CollectBeforeNet(d, snap, pdisk) ==
    [d EXCEPT
        !.cpu_percent      = snap.cpu_percent,
        !.cpu_temp         = snap.cpu_temp,
        !.ram_percent      = snap.ram_percent,
        !.swap_percent     = snap.swap_percent,
        !.disk_percent     = snap.disk_percent,
        !.disk_read_bytes  = IF Truthy(snap.disk_io) THEN snap.disk_io[1].read_bytes ELSE @,
        !.disk_write_bytes = IF Truthy(snap.disk_io) THEN snap.disk_io[1].write_bytes ELSE @,
        !.disk_read_speed  = DiskReadSpeed(snap.disk_io, pdisk),
        !.disk_write_speed = DiskWriteSpeed(snap.disk_io, pdisk)]

\* get_all_system_data on a host where psutil.net_io_counters() returns None
\* (no network interface): net.bytes_sent raises AttributeError at line 211,
\* nothing in the class catches it and the run loop ends (line 1235)
TickAborted(snap, e) ==
    /\ error = None
    /\ ~NetPresent(snap.net)
    /\ now' = now + e
    /\ elapsed' = e
    /\ snapshot' = Some(snap)
    /\ data' = CollectBeforeNet(data, snap, prev_disk_io)
    /\ prev_disk_io' = NextPrevDiskIo(snap.disk_io, prev_disk_io)
    /\ error' = Some("AttributeError")
    /\ UNCHANGED <<ticks, prev_net, prev_proc_count, alerts, notifications,
                   alert_history, data_history, pushed, max_history, thresholds,
                   graphs>>

-----------------------------------------------------------------------------
(* Inputs: the readings psutil can hand to a tick *)

\* an idle host: nothing is over a threshold, counters at rest
Quiet ==
    [cpu_percent |-> 20, ram_percent |-> 40, disk_percent |-> 50,
     cpu_temp |-> FormatTemp(45), swap_percent |-> 10,
     net_connections |-> 100, process_count |-> 200, zombie_count |-> 0,
     net |-> [bytes_sent |-> 0, bytes_recv |-> 0],
     disk_io |-> Some([read_bytes |-> 0, write_bytes |-> 0])]

\* every alert rule of _check_alerts fires at once
Storm ==
    [Quiet EXCEPT !.cpu_percent = 95, !.ram_percent = 95, !.disk_percent = 96,
                  !.cpu_temp = FormatTemp(90), !.zombie_count = 1,
                  !.net_connections = 6000]

\* one quantity at a time leaves the idle level
AlertSnapshots ==
    {Quiet, Storm}
    \cup {[Quiet EXCEPT !.cpu_percent = v] : v \in {71, 95}}
    \cup {[Quiet EXCEPT !.ram_percent = v] : v \in {76, 95}}
    \cup {[Quiet EXCEPT !.disk_percent = v] : v \in {81, 96}}
    \cup {[Quiet EXCEPT !.cpu_temp = v] : v \in {FormatTemp(75), FormatTemp(90), NA}}
    \cup {[Quiet EXCEPT !.swap_percent = v] : v \in {60, 85}}
    \cup {[Quiet EXCEPT !.net_connections = v] : v \in {1500, 6000}}
    \cup {[Quiet EXCEPT !.process_count = v] : v \in {350, 600}}
    \cup {[Quiet EXCEPT !.zombie_count = v] : v \in {1, 2}}
    \cup {[Storm EXCEPT !.cpu_temp = NA]}

\* number of ticks explored by Spec
MaxTicks == 3

\* a steady loop: every iteration takes one second
SteadyElapsed == {MinElapsed + 1}

TickAlerts ==
    /\ ticks < MaxTicks
    /\ \E snap \in AlertSnapshots, e \in SteadyElapsed : Tick(snap, e)

Next == TickAlerts

Spec == Init /\ [][Next]_vars

-----------------------------------------------------------------------------
(* A long run of a loaded host, for the capacity of the two alert logs *)

\* number of ticks explored by SpecCaps
MaxTicksCaps == 9

CapsSnapshots == {Quiet, Storm, [Quiet EXCEPT !.cpu_percent = 95]}

TickCaps ==
    /\ ticks < MaxTicksCaps
    /\ \E snap \in CapsSnapshots, e \in SteadyElapsed : Tick(snap, e)

NextCaps == TickCaps

SpecCaps == Init /\ [][NextCaps]_vars

-----------------------------------------------------------------------------
(* Properties of the alert logs *)

\* number of positions of log that hold x
Occurrences(log, x) == Cardinality({i \in 1..Len(log) : log[i] = x})

\* the message of an alert_history entry "HH:MM:SS - message"
EntryMessage(entry) == SubSeq(entry, 3, Len(entry))

\* the messages of alert_history, in order, timestamps removed
HistoryMessages(hist) == [i \in 1..Len(hist) |-> EntryMessage(hist[i])]

\* C1: an alert whose identical message is generated on two consecutive ticks
\* is held exactly once by alert_history and exactly once by notifications
\* after the second of the two ticks.
C1_Dedup ==
    [][\A a \in Range(alerts) \cap Range(alerts') :
          /\ Occurrences(HistoryMessages(alert_history'), a) = 1
          /\ Occurrences(notifications', a) = 1]_vars

\* C2: after every tick alert_history holds at most 50 entries.
C2_AlertHistoryBounded == Len(alert_history) <= AlertHistoryCap

\* C3: after every tick notifications holds at most 10 entries.
C3_NotificationsBounded == Len(notifications) <= NotificationCap

\* C4: a message that was generated earlier, was not generated by the previous
\* tick (the condition cleared) and is still in alert_history is not appended
\* again to alert_history or notifications when the condition re-triggers.
C4_FireOnce ==
    [][\A a \in Range(alerts') :
          (a \notin Range(alerts) /\ a \in Range(HistoryMessages(alert_history)))
          => /\ Occurrences(HistoryMessages(alert_history'), a)
                    <= Occurrences(HistoryMessages(alert_history), a)
             /\ Occurrences(notifications', a) <= Occurrences(notifications, a)]_vars


\* the label _check_alerts gives each quantity it evaluates; swap and the
\* process count have thresholds (lines 45, 47) and no rule, hence no label
RuleLabels == {"CPU", "RAM", "Disk", "CPU Temp", "Network Connections",
               "Zombie Processes"}

\* the last tick generated a message of severity sev about the quantity
\* labelled by one of labels, embedding value
Emitted(sev, labels, value) ==
    \E a \in Range(alerts) : a[1] = sev /\ a[2] \in labels /\ a[3] = value

\* value > crit emits CRITICAL; value > warn and not > crit emits WARNING
Covered(value, warn, crit, labels) ==
    /\ value > crit => Emitted("CRITICAL", labels, value)
    /\ (value > warn /\ ~(value > crit)) => Emitted("WARNING", labels, value)

\* labels a message about a quantity without a rule could carry
OtherLabels == {a[2] : a \in Range(alerts)} \ RuleLabels

\* C9: every quantity with a (warn, crit) pair in thresholds - CPU, RAM, disk,
\* temperature, swap, connections, processes - emits CRITICAL when its value
\* is > crit and WARNING when it is > warn and not > crit.
C9_AlertCoverage ==
    ticks > 0 =>
        /\ Covered(data.cpu_percent, thresholds.cpu_warn, thresholds.cpu_crit, {"CPU"})
        /\ Covered(data.ram_percent, thresholds.ram_warn, thresholds.ram_crit, {"RAM"})
        /\ Covered(data.disk_percent, thresholds.disk_warn, thresholds.disk_crit, {"Disk"})
        /\ ParseTemp(data.cpu_temp) # None =>
               Covered(ParseTemp(data.cpu_temp)[1], thresholds.temp_warn,
                       thresholds.temp_crit, {"CPU Temp"})
        /\ Covered(data.net_connections, thresholds.conn_warn, thresholds.conn_crit,
                   {"Network Connections"})
        /\ Covered(data.swap_percent, thresholds.swap_warn, thresholds.swap_crit,
                   OtherLabels)
        /\ Covered(data.process_count, thresholds.proc_warn, thresholds.proc_crit,
                   OtherLabels)

-----------------------------------------------------------------------------
(* Counter-backed rates under a jittering loop *)

\* number of ticks explored by SpecRates
MaxTicksRates == 3

\* cumulative counters take the values 0, 1000, ..., MaxCounter * 1000
MaxCounter == 1

\* bytes_sent and bytes_recv: one rises while the other falls back
NetSamples ==
    {[bytes_sent |-> c * 1000, bytes_recv |-> (MaxCounter - c) * 1000] :
        c \in 0..MaxCounter}

\* psutil.disk_io_counters(): None on a host without disks
DiskSamples ==
    {None} \cup
    {Some([read_bytes |-> c * 1000, write_bytes |-> (MaxCounter - c) * 1000]) :
        c \in 0..MaxCounter}

RateSnapshots ==
    {[Quiet EXCEPT !.net = n, !.disk_io = dio] : n \in NetSamples, dio \in DiskSamples}

\* an iteration takes its blocking 0.9 s, or 0.3 s more
JitterElapsed == {MinElapsed, MinElapsed + 3}

TickRates ==
    /\ ticks < MaxTicksRates
    /\ \E snap \in RateSnapshots, e \in JitterElapsed : Tick(snap, e)

NextRates == TickRates

SpecRates == Init /\ [][NextRates]_vars

\* the claimed rate of a counter that went from v1 to v2 in e tenths of a second
\* is rate: 0 after a rollback, (v2 - v1) / e after a rise
RollbackSafe(v1, v2, rate) == v2 < v1 => rate = 0

RealRate(v1, v2, e, rate) == (v1 < v2 /\ e > 0) => (rate * e = (v2 - v1) * 10 /\ rate >= 0)

\* the disk counters were read by the previous tick and by this one
DiskConsecutive ==
    /\ snapshot # None
    /\ snapshot[1].disk_io # None
    /\ snapshot'[1].disk_io # None

\* C5: when a cumulative counter is lower on this tick than on the previous
\* tick, the rate reported for this tick is 0 and the stored previous sample
\* becomes the new value.
C5_RateRollbackSafety ==
    [][/\ prev_net # None =>
            /\ RollbackSafe(prev_net[1].bytes_sent, snapshot'[1].net.bytes_sent,
                            data'.net_up_speed)
            /\ RollbackSafe(prev_net[1].bytes_recv, snapshot'[1].net.bytes_recv,
                            data'.net_down_speed)
            /\ prev_net' = Some(snapshot'[1].net)
       /\ DiskConsecutive =>
            /\ RollbackSafe(prev_disk_io[1].read_bytes, snapshot'[1].disk_io[1].read_bytes,
                            data'.disk_read_speed)
            /\ RollbackSafe(prev_disk_io[1].write_bytes, snapshot'[1].disk_io[1].write_bytes,
                            data'.disk_write_speed)
            /\ prev_disk_io' = snapshot'[1].disk_io]_vars

\* C6: for two consecutive ticks with counter values v1 < v2 and real elapsed
\* time e > 0 between them, the reported rate is (v2 - v1) / e and is >= 0.
C6_RateUsesRealElapsed ==
    [][/\ prev_net # None =>
            /\ RealRate(prev_net[1].bytes_sent, snapshot'[1].net.bytes_sent,
                        elapsed', data'.net_up_speed)
            /\ RealRate(prev_net[1].bytes_recv, snapshot'[1].net.bytes_recv,
                        elapsed', data'.net_down_speed)
       /\ DiskConsecutive =>
            /\ RealRate(prev_disk_io[1].read_bytes, snapshot'[1].disk_io[1].read_bytes,
                        elapsed', data'.disk_read_speed)
            /\ RealRate(prev_disk_io[1].write_bytes, snapshot'[1].disk_io[1].write_bytes,
                        elapsed', data'.disk_write_speed)]_vars

\* C7: on the first tick in which a counter is seen (no stored previous
\* sample) every rate derived from it is 0 whatever its value, and the sample
\* is stored for the next tick.
C7_RateBootstrap ==
    [][/\ prev_net = None =>
            /\ data'.net_up_speed = 0
            /\ data'.net_down_speed = 0
            /\ prev_net' = Some(snapshot'[1].net)
       /\ (prev_disk_io = None /\ snapshot'[1].disk_io # None) =>
            /\ data'.disk_read_speed = 0
            /\ data'.disk_write_speed = 0
            /\ prev_disk_io' = snapshot'[1].disk_io]_vars

\* the first tick read non-zero counters, reported zero rates and stored them
C7_Witness ==
    /\ ticks = 1
    /\ prev_net # None
    /\ prev_net[1].bytes_sent > 0
    /\ data.net_up_speed = 0
    /\ prev_disk_io # None
    /\ prev_disk_io[1].read_bytes > 0
    /\ data.disk_read_speed = 0

-----------------------------------------------------------------------------
(* A long run of a host whose load ramps up, for the history buffers *)

\* number of ticks explored by SpecHistory
MaxTicksHistory == 36

LoadLevels == {20, 40, 60}

\* CPU load never falls during the run, RAM mirrors it, bytes_sent keeps rising
RampSnapshots ==
    {[Quiet EXCEPT !.cpu_percent = l, !.ram_percent = 100 - l,
                   !.net = [bytes_sent |-> (ticks + 1) * 1000, bytes_recv |-> 0]] :
        l \in {x \in LoadLevels : ticks = 0 \/ x >= data.cpu_percent}}

TickHistory ==
    /\ ticks < MaxTicksHistory
    /\ \E snap \in RampSnapshots, e \in SteadyElapsed : Tick(snap, e)

NextHistory == TickHistory

SpecHistory == Init /\ [][NextHistory]_vars

Metrics == {"cpu", "ram", "disk", "network"}

\* C8: after k ticks every history buffer holds exactly min(k, 30) values, the
\* last min(k, 30) pushed values in push order, oldest first.
C8_HistoryBound ==
    \A m \in Metrics :
        /\ Len(data_history[m]) = Min(ticks, 30)
        /\ data_history[m] = LastN(pushed[m], 30)

\* 35 pushes: the buffer is pushes 6..35 and the five evicted values differ
\* from the newest one
C8_Witness ==
    /\ ticks = 35
    /\ data_history.cpu = SubSeq(pushed.cpu, 6, 35)
    /\ pushed.cpu[1] # pushed.cpu[35]
    /\ pushed.cpu[5] # pushed.cpu[6]

\* the history buffers as they were before the last tick pushed into them
HistoryBeforeTick ==
    [m \in Metrics |-> LastN(SubSeq(pushed[m], 1, Len(pushed[m]) - 1), 30)]

\* C10: the tick's values are pushed into the history buffers before the
\* forecaster runs: the forecast is the one computed from the window that
\* ends with the current tick's value, and the fifth tick's trend is not
\* "unknown".
C10_PushBeforeForecast ==
    ticks > 0 =>
        /\ data.resource_forecast = PredictResources(data_history, data)
        /\ ticks = 5 => data.resource_forecast.cpu_trend # "unknown"

\* C10 as amended: the forecaster runs before the tick's values are pushed:
\* the forecast is the one computed from the window that ends with the
\* previous tick's value, the trend is "unknown" up to the fifth tick and
\* not "unknown" from the sixth tick on.
C10_ForecastBeforePush ==
    ticks > 0 =>
        /\ data.resource_forecast = PredictResources(HistoryBeforeTick, data)
        /\ ticks <= 5 => data.resource_forecast.cpu_trend = "unknown"
        /\ ticks >= 6 => data.resource_forecast.cpu_trend # "unknown"

\* the sixth tick forecasts a rise from the five earlier samples, and the
\* window with the current value would have given another prediction
C10_Witness ==
    /\ ticks = 6
    /\ data.resource_forecast.cpu_trend = "increasing"
    /\ data.resource_forecast # PredictResources(data_history, data)

-----------------------------------------------------------------------------
(* Snapshots that lack the network counters *)

\* number of ticks explored by SpecInvalid
MaxTicksInvalid == 2

\* the readings of RateSnapshots, and the same readings without network counters
InvalidSnapshots == {[s EXCEPT !.net = None] : s \in RateSnapshots}

TickValid ==
    /\ ticks < MaxTicksInvalid
    /\ \E snap \in RateSnapshots, e \in JitterElapsed : Tick(snap, e)

TickInvalid ==
    /\ ticks < MaxTicksInvalid
    /\ \E snap \in InvalidSnapshots, e \in JitterElapsed : TickAborted(snap, e)

NextInvalid == TickValid \/ TickInvalid

SpecInvalid == Init /\ [][NextInvalid]_vars

\* C11: a tick whose snapshot lacks a mandatory field is rejected with the
\* error kind InvalidSnapshot and leaves the stored previous counters, the
\* history buffers, alert_history and notifications as they were.
\* (The clock advances on every step, so the subscript admits no other step.)
C11_InvalidSnapshotAtomic ==
    [][~NetPresent(snapshot'[1].net) =>
          /\ error' = Some("InvalidSnapshot")
          /\ UNCHANGED <<prev_net, prev_disk_io, prev_proc_count, data_history,
                         alert_history, notifications>>]_<<now, vars>>

-----------------------------------------------------------------------------
(* Hosts at every boundary of the health score *)

\* number of ticks explored by SpecHealth
MaxTicksHealth == 2

\* each scored quantity at, below and above the limits of its penalty tiers
HealthSnapshots ==
    {[Quiet EXCEPT !.cpu_percent = c, !.ram_percent = r, !.disk_percent = k,
                   !.cpu_temp = t, !.process_count = p, !.zombie_count = z,
                   !.net_connections = n] :
        c \in {70, 90, 91, 95}, r \in {70, 90, 95}, k \in {80, 95, 96},
        t \in {NA, FormatTemp(70), FormatTemp(85), FormatTemp(86)},
        p \in {500, 501}, z \in {0, 1}, n \in {1000, 1001}}

\* the first tick meets any such host; afterwards the host keeps its load
\* or falls idle
HealthSnapshotsNow ==
    IF ticks = 0 THEN HealthSnapshots ELSE {snapshot[1], Quiet}

TickHealth ==
    /\ ticks < MaxTicksHealth
    /\ \E snap \in HealthSnapshotsNow, e \in SteadyElapsed : Tick(snap, e)

NextHealth == TickHealth

SpecHealth == Init /\ [][NextHealth]_vars

\* the temperature of a reading in degrees, 0 when it is unavailable
Degrees(s) == IF ParseTemp(s.cpu_temp) = None THEN 0 ELSE ParseTemp(s.cpu_temp)[1]

\* the penalties of spec section 4.5 that apply to the reading s
ClaimedPenalties(s) ==
    <<IF s.cpu_percent > 90 THEN 25 ELSE IF s.cpu_percent > 70 THEN 10 ELSE 0,
      IF s.ram_percent > 90 THEN 25 ELSE IF s.ram_percent > 70 THEN 10 ELSE 0,
      IF s.disk_percent > 95 THEN 20 ELSE IF s.disk_percent > 80 THEN 10 ELSE 0,
      IF Degrees(s) > 85 THEN 15 ELSE IF Degrees(s) > 70 THEN 5 ELSE 0,
      IF s.process_count > 500 THEN 5 ELSE 0,
      IF s.zombie_count > 0 THEN 10 ELSE 0,
      IF s.net_connections > 1000 THEN 5 ELSE 0>>

RECURSIVE Sum(_)
Sum(seq) == IF seq = <<>> THEN 0 ELSE Head(seq) + Sum(Tail(seq))

\* C12: the health score is an integer in [0, 100], equal to 100 minus the sum
\* of the applicable penalties clamped to [0, 100]; with all seven penalties
\* (sum 105) it is 0.
C12_HealthScoreRange ==
    ticks > 0 =>
        /\ data.health_score \in 0..100
        /\ data.health_score
               = Max(0, Min(100, 100 - Sum(ClaimedPenalties(snapshot[1]))))
        /\ Sum(ClaimedPenalties(snapshot[1])) = 105 => data.health_score = 0

\* all seven penalties apply and the score is 0
C12_Witness ==
    /\ ticks > 0
    /\ \A i \in 1..7 : ClaimedPenalties(snapshot[1])[i] > 0
    /\ Sum(ClaimedPenalties(snapshot[1])) = 105
    /\ data.health_score = 0

\* C13: the comparisons are strict and the higher tier excludes the lower:
\* CPU or RAM at exactly 90 costs 10 and above 90 costs 25; disk above 95
\* costs 20, else above 80 costs 10; temperature above 85 costs 15, else above
\* 70 costs 5; more than 500 processes cost 5; any zombie costs 10; more than
\* 1000 connections cost 5.  CPU 95, RAM 95, disk 96, one zombie and no other
\* penalty score 20.
C13_HealthPenaltyTiers ==
    ticks > 0 =>
        /\ data.cpu_percent = 90 => CpuPenalty(data) = 10
        /\ data.cpu_percent > 90 => CpuPenalty(data) = 25
        /\ data.ram_percent = 90 => RamPenalty(data) = 10
        /\ data.ram_percent > 90 => RamPenalty(data) = 25
        /\ DiskPenalty(data) = IF data.disk_percent > 95 THEN 20
                               ELSE IF data.disk_percent > 80 THEN 10 ELSE 0
        /\ TempPenalty(data) = IF Degrees(data) > 85 THEN 15
                               ELSE IF Degrees(data) > 70 THEN 5 ELSE 0
        /\ ProcPenalty(data) = IF data.process_count > 500 THEN 5 ELSE 0
        /\ ZombiePenalty(data) = IF data.zombie_count > 0 THEN 10 ELSE 0
        /\ ConnPenalty(data) = IF data.net_connections > 1000 THEN 5 ELSE 0
        /\ ( /\ data.cpu_percent = 95 /\ data.ram_percent = 95
             /\ data.disk_percent = 96 /\ data.zombie_count = 1
             /\ Degrees(data) <= 70 /\ data.process_count <= 500
             /\ data.net_connections <= 1000 ) => data.health_score = 20

\* the full-load reading of the claim scores 20, and a reading with CPU at
\* exactly 90 and nothing else penalised scores 90
C13_Witness ==
    /\ ticks > 0
    /\ \/ /\ data.cpu_percent = 95 /\ data.ram_percent = 95
          /\ data.disk_percent = 96 /\ data.zombie_count = 1
          /\ data.health_score = 20
       \/ /\ data.cpu_percent = 90 /\ data.health_score = 90

\* the seven readings the health score is computed from
SameScoredReadings(s, t) ==
    /\ s.cpu_percent = t.cpu_percent
    /\ s.ram_percent = t.ram_percent
    /\ s.disk_percent = t.disk_percent
    /\ s.cpu_temp = t.cpu_temp
    /\ s.process_count = t.process_count
    /\ s.zombie_count = t.zombie_count
    /\ s.net_connections = t.net_connections

\* C14: the health score depends on the current snapshot only: a tick that
\* presents the same seven scored readings as the tick before gets the same
\* score, although the history buffers, the alert logs and the stored counters
\* have changed in between.
C14_HealthStateless ==
    [][(ticks > 0 /\ SameScoredReadings(snapshot[1], snapshot'[1]))
           => data'.health_score = data.health_score]_<<now, vars>>

\* the second of two ticks under the same full load: the logs already held the
\* first tick's alerts, the counters were stored, and the score is again 20
C14_Witness ==
    /\ ticks = 2
    /\ pushed.cpu = <<95, 95>>
    /\ pushed.ram = <<95, 95>>
    /\ snapshot[1].disk_percent = 96
    /\ Len(alert_history) > Len(alerts)
    /\ prev_net # None
    /\ data.health_score = 20

-----------------------------------------------------------------------------
(* A load that climbs slowly or jumps: the forecaster's cases *)

\* number of ticks explored by SpecForecast
MaxTicksForecast == 6

\* CPU levels two points apart and one near saturation
ForecastLevels == {50, 52, 54, 56, 58, 60, 98}

\* the CPU never falls and the RAM mirrors it
ForecastSnapshots ==
    {[Quiet EXCEPT !.cpu_percent = l, !.ram_percent = 100 - l] :
        l \in {x \in ForecastLevels : ticks = 0 \/ x >= data.cpu_percent}}

TickForecast ==
    /\ ticks < MaxTicksForecast
    /\ \E snap \in ForecastSnapshots, e \in SteadyElapsed : Tick(snap, e)

NextForecast == TickForecast

SpecForecast == Init /\ [][NextForecast]_vars

\* the metrics _predict_resources forecasts
Forecastable == {"cpu", "ram"}

\* the trend the last tick published for metric m
TrendOf(m) ==
    IF m = "cpu" THEN data.resource_forecast.cpu_trend
    ELSE data.resource_forecast.ram_trend

\* the prediction the last tick published for metric m, in fifths
PredictedOf(m) ==
    IF m = "cpu" THEN data.resource_forecast.cpu_predicted
    ELSE data.resource_forecast.ram_predicted

\* the raw value of metric m in the last tick
CurrentOf(m) == IF m = "cpu" THEN data.cpu_percent ELSE data.ram_percent

\* last sample minus fifth-from-last sample of a window of at least 5 samples
Rise(w) == w[Len(w)] - w[Len(w) - 4]

\* C15: whenever the history window of CPU% or RAM% holds fewer than 5
\* samples, the trend is "unknown" and the predicted value is the current raw
\* value of the metric.
C15_ForecastInsufficient ==
    ticks > 0 =>
        \A m \in Forecastable :
            Len(HistoryBeforeTick[m]) < 5 =>
                /\ TrendOf(m) = "unknown"
                /\ PredictedOf(m) = CurrentOf(m) * FP

\* a window of 4 samples ending at 56 and a current value of 98
C15_Witness ==
    /\ ticks = 5
    /\ Len(HistoryBeforeTick.cpu) = 4
    /\ HistoryBeforeTick.cpu[4] = 56
    /\ data.cpu_percent = 98
    /\ data.resource_forecast.cpu_trend = "unknown"
    /\ data.resource_forecast.cpu_predicted = 98 * FP

\* C16: with at least 5 samples the slope is (last - fifth-from-last) / 5 and
\* the trend is "increasing" when slope > 2, "decreasing" when slope < -2 and
\* "stable" otherwise; a slope of exactly 2 or -2 is "stable".
C16_TrendClassification ==
    ticks > 0 =>
        \A m \in Forecastable :
            Len(HistoryBeforeTick[m]) >= 5 =>
                LET rise == Rise(HistoryBeforeTick[m])
                IN  /\ rise > 2 * 5 => TrendOf(m) = "increasing"
                    /\ rise < -2 * 5 => TrendOf(m) = "decreasing"
                    /\ (rise <= 2 * 5 /\ rise >= -2 * 5) => TrendOf(m) = "stable"

\* CPU rose by exactly 10 and RAM fell by exactly 10 over the window: both
\* slopes are on the boundary and both trends are "stable"
C16_Witness ==
    /\ ticks = 6
    /\ Rise(HistoryBeforeTick.cpu) = 10
    /\ Rise(HistoryBeforeTick.ram) = -10
    /\ data.resource_forecast.cpu_trend = "stable"
    /\ data.resource_forecast.ram_trend = "stable"

\* C17: with at least 5 samples the predicted value is currentValue + 2 * slope
\* clamped to [0, 100]; for the window tail [50,52,54,56,58] and the current
\* value 58 the trend is "stable" and the prediction is 61.2 (306 fifths).
C17_PredictionClamped ==
    ticks > 0 =>
        \A m \in Forecastable :
            Len(HistoryBeforeTick[m]) >= 5 =>
                LET w == HistoryBeforeTick[m]
                    raw == CurrentOf(m) * FP + 2 * Rise(w)
                IN  /\ PredictedOf(m) \in 0..(100 * FP)
                    /\ PredictedOf(m) = IF raw < 0 THEN 0
                                        ELSE IF raw > 100 * FP THEN 100 * FP
                                        ELSE raw
                    /\ (LastN(w, 5) = <<50, 52, 54, 56, 58>> /\ CurrentOf(m) = 58)
                           => (TrendOf(m) = "stable" /\ PredictedOf(m) = 306)

\* the scenario of the claim: window [50,52,54,56,58], current value 58
C17_Witness ==
    /\ ticks = 6
    /\ HistoryBeforeTick.cpu = <<50, 52, 54, 56, 58>>
    /\ data.cpu_percent = 58
    /\ data.resource_forecast.cpu_trend = "stable"
    /\ data.resource_forecast.cpu_predicted = 306

-----------------------------------------------------------------------------
(* Alert rules, continued *)

\* the messages of the last tick about the quantity labelled what
AlertsAbout(what) == {i \in DOMAIN alerts : alerts[i][2] = what}

\* C18: in a single tick each threshold-monitored quantity yields at most one
\* alert message: never a CRITICAL and a WARNING for the same quantity.
C18_OneAlertPerQuantity ==
    \A what \in RuleLabels :
        /\ Cardinality(AlertsAbout(what)) <= 1
        /\ \A i, j \in AlertsAbout(what) : alerts[i][1] = alerts[j][1]

\* a tick in which every rule is above its critical limit: one CRITICAL each
C18_Witness ==
    /\ ticks > 0
    /\ data.cpu_percent > thresholds.cpu_crit
    /\ data.ram_percent > thresholds.ram_crit
    /\ data.disk_percent > thresholds.disk_crit
    /\ data.net_connections > thresholds.conn_crit
    /\ \A what \in {"CPU", "RAM", "Disk", "Network Connections"} :
           \E i \in DOMAIN alerts :
               /\ AlertsAbout(what) = {i}
               /\ alerts[i][1] = "CRITICAL"

\* the warning the claim expects for n zombie processes
ZombieWarning(n) == Msg("WARNING", "Zombie Processes", n)

\* the alert_history entries that carry the message m
EntriesOf(hist, m) == {i \in DOMAIN hist : EntryMessage(hist[i]) = m}

\* C19: every tick whose zombie count is > 0 generates a WARNING that embeds
\* the count; two ticks with different positive counts produce two distinct
\* messages and two distinct alert_history entries.
C19_ZombieWarning ==
    [][/\ data'.zombie_count > 0 => ZombieWarning(data'.zombie_count) \in Range(alerts')
       /\ ( /\ ticks > 0
            /\ data.zombie_count > 0
            /\ data'.zombie_count > 0
            /\ data.zombie_count # data'.zombie_count )
          => /\ ZombieWarning(data.zombie_count) # ZombieWarning(data'.zombie_count)
             /\ ZombieWarning(data.zombie_count) \in Range(alerts)
             /\ EntriesOf(alert_history', ZombieWarning(data.zombie_count)) # {}
             /\ EntriesOf(alert_history', ZombieWarning(data'.zombie_count)) # {}
             /\ EntriesOf(alert_history', ZombieWarning(data.zombie_count))
                  \cap EntriesOf(alert_history', ZombieWarning(data'.zombie_count)) = {}
      ]_<<now, vars>>

\* one zombie, then two: both warnings are in alert_history
C19_Witness ==
    /\ ticks >= 2
    /\ data.zombie_count = 2
    /\ ZombieWarning(2) \in Range(alerts)
    /\ EntriesOf(alert_history, ZombieWarning(1)) # {}
    /\ EntriesOf(alert_history, ZombieWarning(2)) # {}

\* the same readings with a cool CPU instead of the reported temperature
WithCoolCpu(d) == [d EXCEPT !.cpu_temp = FormatTemp(45)]

\* C20: when the temperature reading is unavailable the tick completes without
\* error, generates no temperature alert, applies no temperature penalty, and
\* evaluates every other alert rule and penalty as usual: alerts and score are
\* those of the same readings with a cool CPU.
C20_TemperatureUnavailable ==
    (ticks > 0 /\ snapshot[1].cpu_temp = NA) =>
        /\ error = None
        /\ data.cpu_temp = NA
        /\ AlertsAbout("CPU Temp") = {}
        /\ alerts = BuildAlerts(WithCoolCpu(data), thresholds)
        /\ data.health_score = CalculateHealthScore(WithCoolCpu(data))

\* full load without a sensor: five alerts, none about the temperature, and
\* the score 100 - 25 - 25 - 20 - 10 - 5
C20_Witness ==
    /\ ticks > 0
    /\ snapshot[1] = [Storm EXCEPT !.cpu_temp = NA]
    /\ error = None
    /\ Len(alerts) = 5
    /\ AlertsAbout("CPU Temp") = {}
    /\ data.health_score = 15

-----------------------------------------------------------------------------
(* Bootstrapping and Steady *)

\* the rate of a counter is derived from the stored sample: it is 0 exactly
\* when the counter stands where the sample left it
FromSample(current, sample, rate) == (rate = 0) <=> (current = sample)

\* C21: the engine is Bootstrapping only before its first tick: from the
\* second tick on every counter-backed rate that is computed has a stored
\* previous sample to be computed from.
C21_SteadyAfterFirstTick ==
    [][ticks >= 1 =>
          /\ prev_net # None
          /\ snapshot'[1].disk_io # None => prev_disk_io # None]_<<now, vars>>

\* C21 as amended: the network counters are Bootstrapping only before the
\* first tick; the disk counters are Bootstrapping until the first tick that
\* reads them.  A stored sample is never cleared, and a rate that has a stored
\* sample is derived from it.
C21_SteadyPerCounter ==
    [][/\ ticks >= 1 => prev_net # None
       /\ prev_net' = Some(snapshot'[1].net)
       /\ prev_net # None =>
             /\ FromSample(snapshot'[1].net.bytes_sent, prev_net[1].bytes_sent,
                           data'.net_up_speed)
             /\ FromSample(snapshot'[1].net.bytes_recv, prev_net[1].bytes_recv,
                           data'.net_down_speed)
       /\ prev_disk_io # None => prev_disk_io' # None
       /\ (prev_disk_io' # None) <=> (prev_disk_io # None \/ snapshot'[1].disk_io # None)
       /\ (prev_disk_io # None /\ snapshot'[1].disk_io # None) =>
             /\ FromSample(snapshot'[1].disk_io[1].read_bytes,
                           prev_disk_io[1].read_bytes, data'.disk_read_speed)
             /\ FromSample(snapshot'[1].disk_io[1].write_bytes,
                           prev_disk_io[1].write_bytes, data'.disk_write_speed)
      ]_<<now, vars>>

\* two ticks: the network rate comes from the first tick's sample, while the
\* disk counters were read once and then missed, and their sample is kept
C21_Witness ==
    /\ ticks = 2
    /\ prev_net # None
    /\ data.net_up_speed # 0
    /\ snapshot[1].disk_io = None
    /\ prev_disk_io # None
    /\ data.disk_read_speed = 0

-----------------------------------------------------------------------------
(* Configuration *)

\* C22: the threshold table and the history capacity (30) are never modified
\* by any tick after construction.
C22_ConfigurationImmutable ==
    /\ thresholds = InitThresholds
    /\ max_history = 30

\* three ticks that compared readings with the table and raised alerts
C22_Witness ==
    /\ ticks = 3
    /\ alerts # <<>>
    /\ Len(alert_history) > Len(alerts)
    /\ Len(data_history.cpu) = 3
    /\ thresholds = InitThresholds
    /\ max_history = 30

-----------------------------------------------------------------------------
(* make_health_panel and its trend graphs *)

RECURSIVE SeqMax(_)
\* max(data)
SeqMax(values) ==
    IF Len(values) = 1 THEN values[1]
    ELSE Max(values[1], SeqMax(Tail(values)))

\* _create_mini_graph: one row of cells per level, top row first; a cell is
\* filled when val >= (row / height) * max_val
CreateMiniGraph(values, height) ==
    IF Len(values) < 2 THEN <<"Insufficient data">>
    ELSE LET max_val == IF SeqMax(values) > 0 THEN SeqMax(values) ELSE 100
         IN  [line \in 1..height |->
                 [i \in 1..Len(values) |->
                     values[i] * height >= (height + 1 - line) * max_val]]

\* slip: the graph keeps only its last five values, in place
MakeHealthPanelTrimming ==
    /\ error = None
    /\ ticks > 0
    /\ graphs' = [cpu     |-> CreateMiniGraph(data_history.cpu, 4),
                  ram     |-> CreateMiniGraph(data_history.ram, 4),
                  network |-> CreateMiniGraph(data_history.network, 4)]
    /\ data_history' = [m \in DOMAIN data_history |-> LastN(data_history[m], 5)]
    /\ UNCHANGED <<notifications, alert_history, max_history, thresholds,
                   data, prev_net, prev_disk_io, prev_proc_count, now, ticks,
                   snapshot, elapsed, alerts, pushed, error>>

\* make_health_panel, lines 1056-1062: the three trend graphs
MakeHealthPanel ==
    /\ error = None
    /\ ticks > 0
    /\ graphs' = [cpu     |-> CreateMiniGraph(data_history.cpu, 4),
                  ram     |-> CreateMiniGraph(data_history.ram, 4),
                  network |-> CreateMiniGraph(data_history.network, 4)]
    /\ UNCHANGED <<notifications, alert_history, data_history, max_history,
                   thresholds, data, prev_net, prev_disk_io, prev_proc_count,
                   now, ticks, snapshot, elapsed, alerts, pushed, error>>

\* number of ticks explored by SpecTrends
MaxTicksTrends == 32

\* an idle and a busy CPU level
TrendLevels == {20, 60}

\* the CPU never falls, and the network counter rises by 1000 bytes per tick
TrendSnapshots ==
    {[Quiet EXCEPT !.cpu_percent = l, !.ram_percent = 100 - l,
                   !.net = [bytes_sent |-> (ticks + 1) * 1000, bytes_recv |-> 0]] :
        l \in {x \in TrendLevels : ticks = 0 \/ x >= data.cpu_percent}}

TickTrends ==
    /\ ticks < MaxTicksTrends
    /\ \E snap \in TrendSnapshots, e \in SteadyElapsed : Tick(snap, e)

NextTrends == TickTrends \/ MakeHealthPanel

SpecTrends == Init /\ [][NextTrends]_vars

\* the value of metric m that the tick which produced d appends
Sampled(m, d) ==
    IF m = "cpu" THEN d.cpu_percent
    ELSE IF m = "ram" THEN d.ram_percent
    ELSE IF m = "disk" THEN d.disk_percent
    ELSE d.net_up_speed + d.net_down_speed

\* C23: reading a history window never mutates it: rendering the trend graphs
\* leaves every history buffer unchanged, and over a tick the only change is
\* the history update (the tick's value appended, the oldest value dropped
\* beyond 30), so the forecast changed nothing.
C23_WindowReadOnly ==
    [][/\ ticks' = ticks => data_history' = data_history
       /\ ticks' = ticks + 1 =>
             \A m \in Metrics :
                 data_history'[m]
                     = LastN(Append(data_history[m], Sampled(m, data')), 30)
      ]_<<now, vars>>

\* graphs drawn from full buffers after a forecast was made from them: the
\* buffers still hold the last 30 pushed values
C23_Witness ==
    /\ ticks > 30
    /\ data.resource_forecast.cpu_trend # "unknown"
    /\ graphs.cpu = CreateMiniGraph(data_history.cpu, 4)
    /\ Len(graphs.cpu) = 4
    /\ Len(graphs.cpu[1]) = 30
    /\ \A m \in Metrics : data_history[m] = LastN(pushed[m], 30)

-----------------------------------------------------------------------------
(* The two alert logs side by side *)

\* log without its n oldest entries
Drop(log, n) == SubSeq(log, n + 1, Len(log))

\* notifications mirrors the newest entries of alert_history
NotificationsMirrorHistory ==
    /\ Len(notifications) <= Len(alert_history)
    /\ notifications
           = HistoryMessages(LastN(alert_history, Len(notifications)))

\* over one step both logs lose only oldest entries and gain the same new
\* alerts at the end, in the same order
LogsGrowAtTheEnd ==
    \E k \in 0..Len(alerts') :
        LET added == LastN(alert_history', k)
        IN  /\ \E n \in 0..Len(alert_history) :
                   alert_history' = Drop(alert_history, n) \o added
            /\ \E n \in 0..Len(notifications) :
                   notifications' = Drop(notifications, n) \o HistoryMessages(added)

\* C24: notifications is never longer than alert_history and holds, in the
\* same order, the messages of the last len(notifications) entries of
\* alert_history; both logs are contiguous suffixes of the chronological
\* sequence of all alerts ever appended.
C24_LogsAreSuffixes ==
    [][NotificationsMirrorHistory' /\ LogsGrowAtTheEnd]_<<now, vars>>

\* nine ticks of six alerts: both logs have evicted (at different times) and
\* the 46 notifications are the messages of the newest 46 history entries
C24_Witness ==
    /\ ticks = 9
    /\ Len(alert_history) = 53
    /\ Len(notifications) = 46
    /\ NotificationsMirrorHistory

-----------------------------------------------------------------------------
(* The forecast over a long run *)

\* what metric m rose by over the five ticks before the last tick
RiseBeforeTick(m) == pushed[m][ticks - 1] - pushed[m][ticks - 5]

\* C25: the forecast of tick k is computed from the history of the ticks
\* before k only: for CPU and RAM the trend is "unknown" on each of the first
\* five ticks and never "unknown" from the sixth tick on, where it follows the
\* rise over the five ticks before k.
C25_ForecastFromEarlierTicks ==
    ticks > 0 =>
        \A m \in Forecastable :
            /\ ticks <= 5 => TrendOf(m) = "unknown"
            /\ ticks >= 6 =>
                  /\ TrendOf(m) # "unknown"
                  /\ (TrendOf(m) = "increasing") <=> (RiseBeforeTick(m) > 10)
                  /\ (TrendOf(m) = "decreasing") <=> (RiseBeforeTick(m) < -10)

\* late in the run the CPU jumps from 40 to 60 after five flat ticks: the
\* trend of that tick is still "stable"
C25_Witness ==
    /\ ticks = 36
    /\ data.cpu_percent = 60
    /\ RiseBeforeTick("cpu") = 0
    /\ pushed.cpu[35] = 40
    /\ data.resource_forecast.cpu_trend = "stable"
    /\ data.resource_forecast.ram_trend = "stable"

-----------------------------------------------------------------------------
(* Ticks without disk counters *)

\* the disk counters were missing in the previous tick and are read by this one
DiskBackAgain ==
    /\ snapshot # None
    /\ snapshot[1].disk_io = None
    /\ snapshot'[1].disk_io # None

\* C26: on a tick where the disk I/O counters are unavailable the disk read
\* and write rates are 0 and the stored previous disk sample is left
\* unchanged; on the next tick where they are available the rate is computed
\* against that older stored sample, or is 0 if none was ever stored.
C26_DiskUnavailable ==
    [][/\ snapshot'[1].disk_io = None =>
             /\ data'.disk_read_speed = 0
             /\ data'.disk_write_speed = 0
             /\ prev_disk_io' = prev_disk_io
       /\ DiskBackAgain =>
             /\ prev_disk_io' = snapshot'[1].disk_io
             /\ prev_disk_io = None =>
                   (data'.disk_read_speed = 0 /\ data'.disk_write_speed = 0)
             /\ prev_disk_io # None =>
                   /\ FromSample(snapshot'[1].disk_io[1].read_bytes,
                                 prev_disk_io[1].read_bytes, data'.disk_read_speed)
                   /\ FromSample(snapshot'[1].disk_io[1].write_bytes,
                                 prev_disk_io[1].write_bytes, data'.disk_write_speed)
      ]_<<now, vars>>

\* the third tick has no disk counters: the rates are 0, the sample of an
\* earlier tick is still stored and the byte totals shown are the old ones
C26_Witness ==
    /\ ticks = 3
    /\ snapshot[1].disk_io = None
    /\ prev_disk_io # None
    /\ prev_disk_io[1].read_bytes = 1000
    /\ data.disk_read_bytes = 1000
    /\ data.disk_read_speed = 0
    /\ data.disk_write_speed = 0

-----------------------------------------------------------------------------
(* The four history buffers side by side *)

\* the tick whose values are at position i of the buffers
TickOfEntry(i) == ticks - Len(data_history.cpu) + i

\* C27: after every completed tick the four history buffers have the same
\* length, min(number of completed ticks, 30), and their i-th entries come
\* from the same tick.
C27_BuffersAligned ==
    /\ \A m \in Metrics : Len(data_history[m]) = Min(ticks, 30)
    /\ \A i \in 1..Len(data_history.cpu) :
          /\ \A m \in Metrics : data_history[m][i] = pushed[m][TickOfEntry(i)]
          /\ data_history.ram[i] = 100 - data_history.cpu[i]

\* 36 ticks: each buffer holds ticks 7..36, the load changed within them and
\* the RAM entries mirror the CPU entries position by position
C27_Witness ==
    /\ ticks = 36
    /\ \A m \in Metrics : Len(data_history[m]) = 30
    /\ TickOfEntry(1) = 7
    /\ data_history.cpu[1] = 20
    /\ data_history.cpu[30] = 60
    /\ data_history.ram[1] = 80
    /\ data_history.ram[30] = 40
    /\ data_history.network[1] = pushed.network[7]

====
